---- MODULE Spec2Model ----
(***************************************************************************)
(* Model of build_resume.py: a YAML resume document is rendered to         *)
(* Markdown, with the bullets of experience roles and projects selected by *)
(* tag include/exclude rules.                                              *)
(*                                                                         *)
(* Python values are tagged records [t, v]: t is the Python type and v its *)
(* payload.  A str is a sequence of characters (one-character strings;     *)
(* a literal without whitespace at its ends and without "\r\n" inside may   *)
(* stand as one element, since strip and replace cannot cut into it).      *)
(* A dict is the sequence of its <<key, value>> items in insertion order.  *)
(* A call that may raise returns [exc, val]: exc = "" on normal return.    *)
(* The characters outside ASCII are written by code point: "U+2022" is the *)
(* contact separator and "U+2014" the dash of the role heading.            *)
(***************************************************************************)
EXTENDS Integers, Sequences, FiniteSets, TLC

VARIABLES pc, bullet_tags, include, exclude, mode, data, ret,
          args, infile, outfile, nwrites

vars == <<pc, bullet_tags, include, exclude, mode, data, ret,
          args, infile, outfile, nwrites>>

-----------------------------------------------------------------------------
(* Python values *)

None == [t |-> "none", v |-> <<>>]
PyStr(s) == [t |-> "str", v |-> s]
PyInt(digits) == [t |-> "int", v |-> digits]
PyList(xs) == [t |-> "list", v |-> xs]
PyDict(items) == [t |-> "dict", v |-> items]

Ok(v) == [exc |-> "", val |-> v]
Raise(e) == [exc |-> e, val |-> <<>>]

\* bool(x): None, "", [], {} are falsy (no int 0 is used in the documents)
Truthy(x) == x.t # "none" /\ x.v # <<>>

\* str(x) for the scalar values a document holds
str(x) ==
    IF x.t = "none" THEN <<"N", "o", "n", "e">> ELSE x.v

\* d.get(k, default) on the items of a dict
Get(d, k, default) ==
    IF \E i \in 1..Len(d.v) : d.v[i][1] = k
    THEN d.v[CHOOSE i \in 1..Len(d.v) : d.v[i][1] = k][2]
    ELSE default

-----------------------------------------------------------------------------
(* str methods *)

IsSpace(c) == c \in {" ", "\n", "\r", "\t"}

lower_char(c) ==
    CASE c = "A" -> "a"
      [] c = "B" -> "b"
      [] c = "C" -> "c"
      [] OTHER -> c

lower(s) == [i \in 1..Len(s) |-> lower_char(s[i])]

RECURSIVE lstrip(_)
lstrip(s) ==
    IF s = <<>> THEN s
    ELSE IF IsSpace(Head(s)) THEN lstrip(Tail(s)) ELSE s

RECURSIVE rstrip(_)
rstrip(s) ==
    IF s = <<>> THEN s
    ELSE IF IsSpace(s[Len(s)]) THEN rstrip(SubSeq(s, 1, Len(s) - 1)) ELSE s

strip(s) == rstrip(lstrip(s))

\* s.replace("\r\n", "\n")
RECURSIVE replace_crlf(_)
replace_crlf(s) ==
    IF Len(s) < 2 THEN s
    ELSE IF s[1] = "\r" /\ s[2] = "\n"
         THEN <<"\n">> \o replace_crlf(SubSeq(s, 3, Len(s)))
         ELSE <<s[1]>> \o replace_crlf(Tail(s))

\* sep.join(xs)
RECURSIVE join(_, _)
join(sep, xs) ==
    IF xs = <<>> THEN <<>>
    ELSE IF Len(xs) = 1 THEN xs[1]
    ELSE xs[1] \o sep \o join(sep, Tail(xs))

\* s.split(",")
RECURSIVE split_comma(_)
split_comma(s) ==
    IF \A i \in 1..Len(s) : s[i] # "," THEN <<s>>
    ELSE LET k == CHOOSE i \in 1..Len(s) :
                      s[i] = "," /\ \A j \in 1..(i - 1) : s[j] # ","
         IN  <<SubSeq(s, 1, k - 1)>> \o split_comma(SubSeq(s, k + 1, Len(s)))

-----------------------------------------------------------------------------
(* norm_tags, bullet_included, md_escape *)

norm_tags(tags) ==
    IF tags.t = "none" THEN {}
    ELSE IF tags.t = "str" THEN {strip(lower(tags.v))}
    ELSE IF tags.t = "list"
         THEN {strip(lower(str(tags.v[i]))) : i \in 1..Len(tags.v)}
    ELSE {strip(lower(str(tags)))}

\* variant: the include test comes before the exclude test
bullet_included_include_first(b_tags, inc, exc, m) ==
    IF inc # {} /\ m = "any" /\ (b_tags \cap inc) # {} THEN Ok(TRUE)
    ELSE IF inc # {} /\ m = "all" /\ inc \subseteq b_tags THEN Ok(TRUE)
    ELSE IF exc # {} /\ (b_tags \cap exc) # {} THEN Ok(FALSE)
    ELSE IF inc = {} THEN Ok(TRUE)
    ELSE IF m \in {"any", "all"} THEN Ok(FALSE)
    ELSE Raise("ValueError")

\* variant: mode "all" tests overlap, as mode "any" does
bullet_included_all_as_any(b_tags, inc, exc, m) ==
    IF exc # {} /\ (b_tags \cap exc) # {} THEN Ok(FALSE)
    ELSE IF inc = {} THEN Ok(TRUE)
    ELSE IF m \in {"any", "all"} THEN Ok((b_tags \cap inc) # {})
    ELSE Raise("ValueError")

\* variant: no early return for an empty include set
bullet_included_no_empty_include(b_tags, inc, exc, m) ==
    IF exc # {} /\ (b_tags \cap exc) # {} THEN Ok(FALSE)
    ELSE IF m = "any" THEN Ok((b_tags \cap inc) # {})
    ELSE IF m = "all" THEN Ok(inc \subseteq b_tags)
    ELSE Raise("ValueError")

\* variant: every mode other than "all" is taken as "any"
bullet_included_default_any(b_tags, inc, exc, m) ==
    IF exc # {} /\ (b_tags \cap exc) # {} THEN Ok(FALSE)
    ELSE IF inc = {} THEN Ok(TRUE)
    ELSE IF m = "all" THEN Ok(inc \subseteq b_tags)
    ELSE Ok((b_tags \cap inc) # {})

bullet_included(b_tags, inc, exc, m) ==
    IF exc # {} /\ (b_tags \cap exc) # {} THEN Ok(FALSE)
    ELSE IF inc = {} THEN Ok(TRUE)
    ELSE IF m = "any" THEN Ok((b_tags \cap inc) # {})
    ELSE IF m = "all" THEN Ok(inc \subseteq b_tags)
    ELSE Raise("ValueError")

md_escape(s) == strip(replace_crlf(s))

-----------------------------------------------------------------------------
(* Section renderers.  Each returns Ok(text) or Raise(exception). *)

EmptyStr == PyStr(<<>>)
Rule == <<"-", "-", "-", "-">>
NL == <<"\n">>
NoBulletsLine == <<"-", " ", "(No bullets matched selected tags.)">>

\* x or []
OrEmptyList(x) == IF Truthy(x) THEN x.v ELSE <<>>

\* the loop over ("location", "phone", "email") of render_header
RECURSIVE contact_bits(_, _)
contact_bits(d, keys) ==
    IF keys = <<>> THEN <<>>
    ELSE LET v == Get(d, Head(keys), None)
         IN  (IF Truthy(v) THEN <<md_escape(str(v))>> ELSE <<>>)
             \o contact_bits(d, Tail(keys))

render_header(d) ==
    LET name == Get(d, "name", EmptyStr)
    IN  IF d.t # "dict" \/ name.t # "str" THEN Raise("AttributeError")
        ELSE
        LET bits == contact_bits(d, <<"location", "phone", "email">>)
            lines == <<strip(<<"#", " ">> \o md_escape(name.v)), <<>>, Rule, NL>>
                     \o (IF bits # <<>>
                         THEN <<(<<"###", " ">> \o join(<<" ", "U+2022", " ">>, bits))>>
                         ELSE <<>>)
                     \o << <<>> >>
        IN  Ok(join(NL, lines))

render_summary(d) ==
    LET summary == Get(d, "summary", None)
    IN  IF ~Truthy(summary) THEN Ok(<<>>)
        ELSE IF summary.t # "str" THEN Raise("AttributeError")
        ELSE Ok(join(NL, <<md_escape(summary.v), NL>>))

\* the loop over skills of render_skills
RECURSIVE skill_lines(_)
skill_lines(skills) ==
    IF skills = <<>> THEN Ok(<<>>)
    ELSE LET s == Head(skills)
             header == Get(s, "header", None)
             skill == Get(s, "skill", None)
         IN  IF header.t # "str" \/ skill.t # "str" THEN Raise("AttributeError")
             ELSE LET line == <<"-", " ", "**">> \o md_escape(md_escape(header.v))
                              \o <<"**", " ">> \o md_escape(md_escape(skill.v))
                      rest == skill_lines(Tail(skills))
                  IN  IF rest.exc # "" THEN rest ELSE Ok(<<line>> \o rest.val)

render_skills(d) ==
    LET skills == OrEmptyList(Get(d, "skills", None))
    IN  IF skills = <<>> THEN Ok(<<>>)
        ELSE LET body == skill_lines(skills)
             IN  IF body.exc # "" THEN body
                 ELSE Ok(join(NL, <<<<"## Technical Skills">>, <<>>, Rule, NL>>
                                  \o body.val \o << <<>> >>))

\* variant: kept.insert(0, text) instead of kept.append(text)
RECURSIVE kept_bullets_prepend(_, _, _, _, _)
kept_bullets_prepend(bullets, kept, inc, exc, m) ==
    IF bullets = <<>> THEN Ok(kept)
    ELSE LET b == Head(bullets)
             text == md_escape(str(Get(b, "text", EmptyStr)))
             tags == norm_tags(Get(b, "tags", None))
         IN  IF text = <<>>
             THEN kept_bullets_prepend(Tail(bullets), kept, inc, exc, m)
             ELSE LET r == bullet_included(tags, inc, exc, m)
                  IN  IF r.exc # "" THEN r
                      ELSE kept_bullets_prepend(Tail(bullets),
                                                IF r.val THEN <<text>> \o kept ELSE kept,
                                                inc, exc, m)

\* variant: the test `text and` is left out
RECURSIVE kept_bullets_any_text(_, _, _, _, _)
kept_bullets_any_text(bullets, kept, inc, exc, m) ==
    IF bullets = <<>> THEN Ok(kept)
    ELSE LET b == Head(bullets)
             text == md_escape(str(Get(b, "text", EmptyStr)))
             tags == norm_tags(Get(b, "tags", None))
             r == bullet_included(tags, inc, exc, m)
         IN  IF r.exc # "" THEN r
             ELSE kept_bullets_any_text(Tail(bullets),
                                        IF r.val THEN Append(kept, text) ELSE kept,
                                        inc, exc, m)

\* the loop over the bullets of one role or project: the list `kept`
RECURSIVE kept_bullets(_, _, _, _, _)
kept_bullets(bullets, kept, inc, exc, m) ==
    IF bullets = <<>> THEN Ok(kept)
    ELSE LET b == Head(bullets)
             text == md_escape(str(Get(b, "text", EmptyStr)))
             tags == norm_tags(Get(b, "tags", None))
         IN  IF text = <<>>
             THEN kept_bullets(Tail(bullets), kept, inc, exc, m)
             ELSE LET r == bullet_included(tags, inc, exc, m)
                  IN  IF r.exc # "" THEN r
                      ELSE kept_bullets(Tail(bullets),
                                        IF r.val THEN Append(kept, text) ELSE kept,
                                        inc, exc, m)

\* variant: nothing is appended when `kept` is empty
bullet_lines_no_placeholder(kept) ==
    [i \in 1..Len(kept) |-> <<"-", " ">> \o kept[i]] \o << <<>> >>

\* the lines appended for `kept`, with the closing empty line
bullet_lines(kept) ==
    (IF kept # <<>>
     THEN [i \in 1..Len(kept) |-> <<"-", " ">> \o kept[i]]
     ELSE <<NoBulletsLine>>)
    \o << <<>> >>

\* the body of the loop over roles of render_experience
role_lines(role, inc, exc, m) ==
    LET company == md_escape(str(Get(role, "company", EmptyStr)))
        title == md_escape(str(Get(role, "title", EmptyStr)))
        location == md_escape(str(Get(role, "location", EmptyStr)))
        dates == md_escape(str(Get(role, "dates", EmptyStr)))
        heading_company == strip(<<"**">> \o company \o <<" ", "U+2014", " ">>
                                 \o title \o <<"**">>)
        heading_location == strip(location \o <<" ", "(">> \o dates \o <<")">>)
        kept == kept_bullets(OrEmptyList(Get(role, "bullets", None)), <<>>,
                             inc, exc, m)
    IN  IF kept.exc # "" THEN kept
        ELSE Ok(<<heading_company, heading_location, <<>> >>
                \o bullet_lines(kept.val))

\* the body of the loop over projects of render_projects
project_lines(p, inc, exc, m) ==
    LET name == md_escape(str(Get(p, "name", EmptyStr)))
        dates == md_escape(str(Get(p, "dates", EmptyStr)))
        kept == kept_bullets(OrEmptyList(Get(p, "bullets", None)), <<>>,
                             inc, exc, m)
    IN  IF kept.exc # "" THEN kept
        ELSE Ok(<<strip(<<"**">> \o name \o <<"**", " ", "(">> \o dates \o <<")">>),
                  <<>> >>
                \o bullet_lines(kept.val))

RECURSIVE experience_lines(_, _, _, _)
experience_lines(exp, inc, exc, m) ==
    IF exp = <<>> THEN Ok(<<>>)
    ELSE LET first == role_lines(Head(exp), inc, exc, m)
         IN  IF first.exc # "" THEN first
             ELSE LET rest == experience_lines(Tail(exp), inc, exc, m)
                  IN  IF rest.exc # "" THEN rest
                      ELSE Ok(first.val \o rest.val)

render_experience(d, inc, exc, m) ==
    LET exp == OrEmptyList(Get(d, "experience", None))
    IN  IF exp = <<>> THEN Ok(<<>>)
        ELSE LET body == experience_lines(exp, inc, exc, m)
             IN  IF body.exc # "" THEN body
                 ELSE Ok(join(NL, <<<<"## Professional Experience">>, <<>>, Rule, NL>>
                                  \o body.val))

RECURSIVE projects_lines(_, _, _, _)
projects_lines(projects, inc, exc, m) ==
    IF projects = <<>> THEN Ok(<<>>)
    ELSE LET first == project_lines(Head(projects), inc, exc, m)
         IN  IF first.exc # "" THEN first
             ELSE LET rest == projects_lines(Tail(projects), inc, exc, m)
                  IN  IF rest.exc # "" THEN rest
                      ELSE Ok(first.val \o rest.val)

render_projects(d, inc, exc, m) ==
    LET projects == OrEmptyList(Get(d, "projects", None))
    IN  IF projects = <<>> THEN Ok(<<>>)
        ELSE LET body == projects_lines(projects, inc, exc, m)
             IN  IF body.exc # "" THEN body
                 ELSE Ok(join(NL, <<<<"## Projects">>, <<>>, Rule, NL>> \o body.val))

\* [b for b in [school, detail, year] if b]
RECURSIVE non_empty(_)
non_empty(xs) ==
    IF xs = <<>> THEN <<>>
    ELSE (IF Head(xs) # <<>> THEN <<Head(xs)>> ELSE <<>>) \o non_empty(Tail(xs))

education_line(e) ==
    LET school == md_escape(str(Get(e, "school", EmptyStr)))
        detail == md_escape(str(Get(e, "detail", EmptyStr)))
        year == md_escape(str(Get(e, "year", EmptyStr)))
    IN  <<"-", " ">> \o join(<<",", " ">>, non_empty(<<school, detail, year>>))

render_education(d) ==
    LET edu == OrEmptyList(Get(d, "education", None))
    IN  IF edu = <<>> THEN Ok(<<>>)
        ELSE Ok(join(NL, <<<<"## Education">>, <<>>, Rule, NL>>
                         \o [i \in 1..Len(edu) |-> education_line(edu[i])]
                         \o << <<>> >>))

\* the list `parts` of build_md; the first renderer that raises ends the call
RECURSIVE first_raise(_)
first_raise(rs) ==
    IF rs = <<>> THEN ""
    ELSE IF Head(rs).exc # "" THEN Head(rs).exc ELSE first_raise(Tail(rs))

render_parts(d, inc, exc, m) ==
    <<render_header(d), render_summary(d), render_skills(d),
      render_experience(d, inc, exc, m), render_projects(d, inc, exc, m),
      render_education(d)>>

\* variant: the joined text is not stripped
build_md_no_strip(d, inc, exc, m) ==
    LET rs == render_parts(d, inc, exc, m)
    IN  IF first_raise(rs) # "" THEN Raise(first_raise(rs))
        ELSE LET parts == [i \in 1..Len(rs) |-> rs[i].val]
             IN  Ok(join(NL, non_empty(parts)) \o NL)

build_md(d, inc, exc, m) ==
    LET rs == render_parts(d, inc, exc, m)
    IN  IF first_raise(rs) # "" THEN Raise(first_raise(rs))
        ELSE LET parts == [i \in 1..Len(rs) |-> rs[i].val]
             IN  Ok(strip(join(NL, non_empty(parts))) \o NL)

-----------------------------------------------------------------------------
(* Inputs of the tag-filter specification *)

NumTags == 3
TagLetters == <<"a", "b", "c", "d", "e">>
TagUniverse == {<<TagLetters[i]>> : i \in 1..NumTags}
Modes == {"any", "all", "first"}

NoArgs == [inp |-> "", out |-> "", include |-> <<>>, exclude |-> <<>>, mode |-> ""]
NoData == PyDict(<<>>)
NoRet == Ok(<<>>)

InitFilter ==
    /\ pc = "call"
    /\ bullet_tags \in SUBSET TagUniverse
    /\ include \in SUBSET TagUniverse
    /\ exclude \in SUBSET TagUniverse
    /\ mode \in Modes
    /\ data = NoData
    /\ ret = NoRet
    /\ args = NoArgs
    /\ infile = "absent"
    /\ outfile = <<>>
    /\ nwrites = 0

CallBulletIncluded ==
    /\ pc = "call"
    /\ ret' = bullet_included(bullet_tags, include, exclude, mode)
    /\ pc' = "returned"
    /\ UNCHANGED <<bullet_tags, include, exclude, mode, data,
                   args, infile, outfile, nwrites>>

NextFilter == CallBulletIncluded

SpecFilter == InitFilter /\ [][NextFilter]_vars

-----------------------------------------------------------------------------
(* Documents.  Missing marks a key left out of a dict under construction. *)

Missing == [t |-> "missing", v |-> <<>>]
IsPresent(item) == item[2].t # "missing"
MakeDict(items) == PyDict(SelectSeq(items, IsPresent))

\* list or, when empty, the given stand-in (a missing key, None or [])
ListOr(xs, empty) == IF xs = <<>> THEN empty ELSE PyList(xs)

Bullet(text, tags) == MakeDict(<< <<"text", text>>, <<"tags", tags>> >>)

BulletPool ==
    << Bullet(PyStr(<<"x">>), PyList(<<PyStr(<<"a">>)>>)),
       Bullet(PyStr(<<" ", "y", " ">>), PyStr(<<"B", " ">>)),
       Bullet(PyStr(<<"z", "\r", "\n">>),
              PyList(<<PyStr(<<"A">>), PyStr(<<" ", "b">>)>>)),
       Bullet(PyStr(<<" ", "\r", "\n">>), PyList(<<PyStr(<<"a">>)>>)),
       Bullet(PyStr(<<"w">>), Missing),
       Bullet(Missing, None) >>

MaxBullets == 2
BulletLists == UNION {[1..n -> 1..Len(BulletPool)] : n \in 0..MaxBullets}
Bullets(ix) == [i \in 1..Len(ix) |-> BulletPool[ix[i]]]

RenderTags == {<<"a">>, <<"b">>}

Role(company, title, location, dates, bullets) ==
    MakeDict(<< <<"company", company>>, <<"title", title>>,
                <<"location", location>>, <<"dates", dates>>,
                <<"bullets", bullets>> >>)

Project(name, dates, bullets) ==
    MakeDict(<< <<"name", name>>, <<"dates", dates>>, <<"bullets", bullets>> >>)

\* two roles and two projects: the first of each holds the bullets `first`,
\* the second the bullets `second`
BulletDoc(first, second) ==
    MakeDict(<<
      <<"experience", PyList(<<
          Role(PyStr(<<"Acme">>), PyStr(<<"Dev">>), PyStr(<<"Paris">>),
               PyStr(<<"2020">>), ListOr(first, Missing)),
          Role(PyStr(<<"Initech">>), Missing, Missing,
               PyInt(<<"2021">>), ListOr(second, None)) >>)>>,
      <<"projects", PyList(<<
          Project(PyStr(<<"Tool">>), PyStr(<<"2019">>), ListOr(first, PyList(<<>>))),
          Project(Missing, Missing, ListOr(second, Missing)) >>)>> >>)

InitRender ==
    /\ pc = "call"
    /\ \E ix \in BulletLists : \E k \in 0..Len(ix) :
          data = BulletDoc(Bullets(SubSeq(ix, 1, k)),
                           Bullets(SubSeq(ix, k + 1, Len(ix))))
    /\ include \in SUBSET RenderTags
    /\ exclude \in SUBSET RenderTags
    /\ mode \in Modes
    /\ bullet_tags = {}
    /\ ret = NoRet
    /\ args = NoArgs
    /\ infile = "absent"
    /\ outfile = <<>>
    /\ nwrites = 0

CallRenderExperience ==
    /\ pc = "call"
    /\ ret' = render_experience(data, include, exclude, mode)
    /\ pc' = "experience"
    /\ UNCHANGED <<bullet_tags, include, exclude, mode, data,
                   args, infile, outfile, nwrites>>

CallRenderProjects ==
    /\ pc = "call"
    /\ ret' = render_projects(data, include, exclude, mode)
    /\ pc' = "projects"
    /\ UNCHANGED <<bullet_tags, include, exclude, mode, data,
                   args, infile, outfile, nwrites>>

NextRender == CallRenderExperience \/ CallRenderProjects

SpecRender == InitRender /\ [][NextRender]_vars

-----------------------------------------------------------------------------
(* Documents whose sections are missing, empty or populated *)

NameValues == {Missing, PyStr(<<>>), PyStr(<<" ", "N">>), None}
LocationValues == {Missing, PyStr(<<>>), PyStr(<<"L">>)}
PhoneValues == {Missing, PyInt(<<"555">>)}
EmailValues == {Missing, PyStr(<<"E">>)}
SummaryValues == {Missing, None, PyStr(<<>>), PyStr(<<"S", "\r", "\n">>)}
SkillsValues ==
    {Missing, None, PyList(<<>>),
     PyList(<<MakeDict(<< <<"header", PyStr(<<"H", " ">>)>>,
                          <<"skill", PyStr(<<"K">>)>> >>)>>)}
ExperienceValues ==
    {Missing, PyList(<<>>),
     PyList(<<Role(PyStr(<<"Acme">>), PyStr(<<"Dev">>), PyStr(<<"Paris">>),
                   PyStr(<<"2020">>), PyList(Bullets(<<1, 2>>)))>>)}
ProjectsValues ==
    {Missing, PyList(<<>>),
     PyList(<<Project(PyStr(<<"Tool">>), PyStr(<<"2019">>),
                      PyList(Bullets(<<3, 4>>)))>>)}
EducationValues ==
    {Missing, PyList(<<>>),
     PyList(<<MakeDict(<< <<"school", PyStr(<<"U">>)>>,
                          <<"year", PyInt(<<"2010">>)>> >>),
              PyDict(<<>>)>>)}

Reverse(xs) == [i \in 1..Len(xs) |-> xs[Len(xs) + 1 - i]]
KeyOrders == {"forward", "backward"}

SectionDoc(order, name, location, phone, email, summary, skills, exp, proj, edu) ==
    LET items == << <<"name", name>>, <<"location", location>>, <<"phone", phone>>,
                    <<"email", email>>, <<"summary", summary>>, <<"skills", skills>>,
                    <<"experience", exp>>, <<"projects", proj>>,
                    <<"education", edu>> >>
    IN  MakeDict(IF order = "forward" THEN items ELSE Reverse(items))

InitBuild ==
    /\ pc = "call"
    /\ \E order \in KeyOrders, name \in NameValues, location \in LocationValues,
          phone \in PhoneValues, email \in EmailValues, summary \in SummaryValues,
          skills \in SkillsValues, exp \in ExperienceValues,
          proj \in ProjectsValues, edu \in EducationValues :
          data = SectionDoc(order, name, location, phone, email, summary,
                            skills, exp, proj, edu)
    /\ include \in {{}, {<<"b">>}}
    /\ exclude = {}
    /\ mode = "any"
    /\ bullet_tags = {}
    /\ ret = NoRet
    /\ args = NoArgs
    /\ infile = "absent"
    /\ outfile = <<>>
    /\ nwrites = 0

CallBuildMd ==
    /\ pc = "call"
    /\ ret' = build_md(data, include, exclude, mode)
    /\ pc' = "returned"
    /\ UNCHANGED <<bullet_tags, include, exclude, mode, data,
                   args, infile, outfile, nwrites>>

NextBuild == CallBuildMd

SpecBuild == InitBuild /\ [][NextBuild]_vars

-----------------------------------------------------------------------------
(* main: one run of the command line *)

\* {t.strip().lower() for t in arg.split(",") if t.strip()}
tag_set(arg) ==
    LET ts == split_comma(arg)
    IN  {lower(strip(ts[i])) : i \in {j \in 1..Len(ts) : strip(ts[j]) # <<>>}}

OldOutput == <<"previous content">>

IncludeArgs == {<<>>, <<"a", ",", " ", "B">>, <<" ", ",", "b", ",">>}
ExcludeArgs == {<<>>, <<"B", " ">>}
InputPaths == {"", "resume.yaml"}

\* what --in names: no readable file, a file that is not YAML, or a YAML file
\* holding the document doc
InputFiles ==
    {[state |-> "unreadable", doc |-> None], [state |-> "malformed", doc |-> None]}
    \cup {[state |-> "yaml", doc |-> d] :
            d \in {None,
                   BulletDoc(Bullets(<<1, 2>>), Bullets(<<3>>)),
                   SectionDoc("forward", None, Missing, Missing, Missing, Missing,
                              Missing, Missing, Missing, Missing),
                   SectionDoc("backward", PyStr(<<"N">>), PyStr(<<"L">>), Missing,
                              Missing, PyStr(<<"S">>),
                              PyList(<<MakeDict(<< <<"skill", PyStr(<<"K">>)>> >>)>>),
                              Missing, Missing, Missing),
                   SectionDoc("forward", PyStr(<<"N">>), Missing, Missing,
                              PyStr(<<"E">>), PyStr(<<"S">>), Missing,
                              PyList(<<Role(PyStr(<<"Acme">>), Missing, Missing,
                                            Missing, PyList(Bullets(<<1, 5>>)))>>),
                              Missing, PyList(<<PyDict(<<>>)>>))}}

Init ==
    /\ pc = "start"
    /\ args \in [inp : InputPaths, out : {"resume.md"}, include : IncludeArgs,
                 exclude : ExcludeArgs, mode : {"", "any", "all", "first"}]
    /\ infile \in InputFiles
    /\ outfile = OldOutput
    /\ nwrites = 0
    /\ include = {}
    /\ exclude = {}
    /\ mode = ""
    /\ data = None
    /\ ret = NoRet
    /\ bullet_tags = {}

\* ap.parse_args(): --in is required, --mode is one of the choices or, when
\* not given (""), the default "any"
ParseArgs ==
    /\ pc = "start"
    /\ IF args.inp = "" \/ args.mode \notin {"", "any", "all"}
       THEN pc' = "usage_error" /\ mode' = mode
       ELSE /\ pc' = "parsed"
            /\ mode' = IF args.mode = "" THEN "any" ELSE args.mode
    /\ UNCHANGED <<bullet_tags, include, exclude, data, ret,
                   args, infile, outfile, nwrites>>

ParseTags ==
    /\ pc = "parsed"
    /\ include' = tag_set(args.include)
    /\ exclude' = tag_set(args.exclude)
    /\ pc' = "filters"
    /\ UNCHANGED <<bullet_tags, mode, data, ret, args, infile, outfile, nwrites>>

LoadYaml ==
    /\ pc = "filters"
    /\ IF infile.state = "yaml"
       THEN data' = infile.doc /\ pc' = "loaded"
       ELSE data' = data /\ pc' = "error"
    /\ UNCHANGED <<bullet_tags, include, exclude, mode, ret,
                   args, infile, outfile, nwrites>>

\* variant: an exception of build_md is swallowed and the run goes on
BuildMd_swallow ==
    /\ pc = "loaded"
    /\ ret' = build_md(data, include, exclude, mode)
    /\ pc' = "built"
    /\ UNCHANGED <<bullet_tags, include, exclude, mode, data,
                   args, infile, outfile, nwrites>>

BuildMd ==
    /\ pc = "loaded"
    /\ ret' = build_md(data, include, exclude, mode)
    /\ pc' = IF ret'.exc # "" THEN "error" ELSE "built"
    /\ UNCHANGED <<bullet_tags, include, exclude, mode, data,
                   args, infile, outfile, nwrites>>

WriteText ==
    /\ pc = "built"
    /\ outfile' = ret.val
    /\ nwrites' = nwrites + 1
    /\ pc' = "done"
    /\ UNCHANGED <<bullet_tags, include, exclude, mode, data, ret, args, infile>>

Next == ParseArgs \/ ParseTags \/ LoadYaml \/ BuildMd \/ WriteText

Spec == Init /\ [][Next]_vars

-----------------------------------------------------------------------------
(* Properties of the tag filter, under SpecFilter *)

\* C1: a bullet that shares a tag with the exclude set is rejected (the call
\* returns False), whatever the include set and the mode are.
C1_ExcludeAlwaysRejects ==
    (pc = "returned" /\ (bullet_tags \cap exclude) # {})
        => (ret.exc = "" /\ ret.val = FALSE)

\* an excluded bullet that the include set alone would accept has been rejected
C1_Witness ==
    /\ pc = "returned"
    /\ (bullet_tags \cap exclude) # {}
    /\ include # {} /\ include \subseteq bullet_tags
    /\ mode \in {"any", "all"}
    /\ ret.exc = "" /\ ret.val = FALSE

\* C2: with a non-empty include set and a bullet that is not excluded, mode
\* "any" accepts exactly the bullets whose tags overlap include and mode "all"
\* exactly the bullets whose tags contain all of include.
C2_IncludeModeSemantics ==
    (/\ pc = "returned"
     /\ include # {}
     /\ (bullet_tags \cap exclude) = {}
     /\ mode \in {"any", "all"})
        => /\ ret.exc = ""
           /\ mode = "any" => (ret.val <=> (bullet_tags \cap include) # {})
           /\ mode = "all" => (ret.val <=> include \subseteq bullet_tags)

\* mode "all" has rejected a bullet that overlaps include without covering it
C2_Witness ==
    /\ pc = "returned"
    /\ mode = "all"
    /\ (bullet_tags \cap exclude) = {}
    /\ (bullet_tags \cap include) # {}
    /\ ~(include \subseteq bullet_tags)
    /\ ret.exc = "" /\ ret.val = FALSE

\* C3: with an empty include set every bullet that is not excluded is accepted,
\* a bullet without tags included, in mode "any" and in mode "all".
C3_EmptyIncludeAccepts ==
    (/\ pc = "returned"
     /\ include = {}
     /\ (bullet_tags \cap exclude) = {}
     /\ mode \in {"any", "all"})
        => (ret.exc = "" /\ ret.val = TRUE)

\* a bullet without tags has been accepted under an empty include set
C3_Witness ==
    /\ pc = "returned"
    /\ include = {}
    /\ bullet_tags = {}
    /\ exclude # {}
    /\ mode = "any"
    /\ ret.exc = "" /\ ret.val = TRUE

\* C4 as stated: every call with a mode other than "any" and "all" raises
\* ValueError, whatever the bullet tags, the include set and the exclude set.
C4_UnknownModeAlwaysRaises ==
    (pc = "returned" /\ mode \notin {"any", "all"}) => ret.exc = "ValueError"

\* C4 amended: a call with a mode other than "any" and "all" raises
\* ValueError exactly when the include set is not empty and the bullet is not
\* excluded; an excluded bullet is rejected and an empty include set accepts,
\* without an error.
C4_UnknownModeRaisesWhenConsulted ==
    (pc = "returned" /\ mode \notin {"any", "all"})
        => IF include # {} /\ (bullet_tags \cap exclude) = {}
           THEN ret.exc = "ValueError"
           ELSE ret.exc = "" /\ (ret.val <=> (bullet_tags \cap exclude) = {})

\* a call with an unknown mode, an include set and a bullet not excluded raised
C4_Witness ==
    /\ pc = "returned"
    /\ mode \notin {"any", "all"}
    /\ include # {} /\ (bullet_tags \cap include) # {}
    /\ (bullet_tags \cap exclude) = {}
    /\ ret.exc = "ValueError"

-----------------------------------------------------------------------------
(* Reading a rendered text back: its lines, and the runs of bullet lines *)

RECURSIVE Lines(_)
Lines(s) ==
    IF \A i \in 1..Len(s) : s[i] # "\n" THEN <<s>>
    ELSE LET k == CHOOSE i \in 1..Len(s) :
                      s[i] = "\n" /\ \A j \in 1..(i - 1) : s[j] # "\n"
         IN  <<SubSeq(s, 1, k - 1)>> \o Lines(SubSeq(s, k + 1, Len(s)))

IsListLine(l) == Len(l) >= 2 /\ l[1] = "-" /\ l[2] = " "

\* the maximal runs of consecutive "- " lines, in order
RECURSIVE ListRuns(_, _)
ListRuns(ls, run) ==
    LET closed == IF run = <<>> THEN <<>> ELSE <<run>>
    IN  IF ls = <<>> THEN closed
        ELSE IF IsListLine(Head(ls)) THEN ListRuns(Tail(ls), Append(run, Head(ls)))
        ELSE closed \o ListRuns(Tail(ls), <<>>)

IsBulletLine(l) == l # NoBulletsLine
BulletLinesOf(run) == SelectSeq(run, IsBulletLine)
HasPlaceholder(run) == \E i \in 1..Len(run) : run[i] = NoBulletsLine

\* the roles or projects the last call rendered, and what it emitted for each
Rendered ==
    OrEmptyList(Get(data, IF pc = "experience" THEN "experience" ELSE "projects", None))
EmittedRuns == ListRuns(Lines(ret.val), <<>>)

SourceBullets(entry) == OrEmptyList(Get(entry, "bullets", None))
NormText(b) == md_escape(str(Get(b, "text", EmptyStr)))
HasText(b) == NormText(b) # <<>>
Accepted(b) ==
    LET r == bullet_included(norm_tags(Get(b, "tags", None)), include, exclude, mode)
    IN  r.exc = "" /\ r.val
Survives(b) == HasText(b) /\ Accepted(b)
AsLines(bs) == [i \in 1..Len(bs) |-> <<"-", " ">> \o NormText(bs[i])]

RenderReturned == pc \in {"experience", "projects"} /\ ret.exc = ""

-----------------------------------------------------------------------------
(* Properties of render_experience and render_projects, under SpecRender *)

\* C5 as stated: with empty include and exclude sets, every role and project
\* shows all of its source bullets, none missing, in their original order.
C5_AllBulletsEmitted ==
    (pc \in {"experience", "projects"} /\ include = {} /\ exclude = {})
        => /\ ret.exc = ""
           /\ Len(EmittedRuns) = Len(Rendered)
           /\ \A i \in 1..Len(Rendered) :
                 BulletLinesOf(EmittedRuns[i]) = AsLines(SourceBullets(Rendered[i]))

\* C5 amended: with empty include and exclude sets, every role and project
\* shows all of its source bullets whose text is not empty after
\* normalization, none missing, in their original order.
C5_AllTextBulletsEmitted ==
    (pc \in {"experience", "projects"} /\ include = {} /\ exclude = {})
        => /\ ret.exc = ""
           /\ Len(EmittedRuns) = Len(Rendered)
           /\ \A i \in 1..Len(Rendered) :
                 BulletLinesOf(EmittedRuns[i])
                     = AsLines(SelectSeq(SourceBullets(Rendered[i]), HasText))

\* a role with two bullets of different text was rendered unfiltered
C5_Witness ==
    /\ pc = "experience" /\ include = {} /\ exclude = {}
    /\ ret.exc = ""
    /\ \E i \in 1..Len(Rendered) :
          /\ Len(SourceBullets(Rendered[i])) = 2
          /\ Len(BulletLinesOf(EmittedRuns[i])) = 2
          /\ EmittedRuns[i][1] # EmittedRuns[i][2]

\* C6: the block of every rendered role and project holds either bullet lines
\* or the one placeholder line, never neither and never both, and the
\* placeholder exactly when no bullet of the role or project survived.
C6_BulletsOrPlaceholder ==
    RenderReturned
        => /\ Len(EmittedRuns) = Len(Rendered)
           /\ \A i \in 1..Len(Rendered) :
                 /\ EmittedRuns[i] = <<NoBulletsLine>>
                        \/ (EmittedRuns[i] # <<>> /\ ~HasPlaceholder(EmittedRuns[i]))
                 /\ HasPlaceholder(EmittedRuns[i])
                        <=> SelectSeq(SourceBullets(Rendered[i]), Survives) = <<>>

\* a project whose bullets were all filtered out shows the placeholder
C6_Witness ==
    /\ pc = "projects" /\ ret.exc = ""
    /\ \E i \in 1..Len(Rendered) :
          /\ \E j \in 1..Len(SourceBullets(Rendered[i])) :
                HasText(SourceBullets(Rendered[i])[j])
          /\ SelectSeq(SourceBullets(Rendered[i]), Survives) = <<>>
          /\ EmittedRuns[i] = <<NoBulletsLine>>

\* C10: the bullet lines under a role or project are exactly its source
\* bullets with non-empty normalized text whose normalized tags the filter
\* accepts, in source order; a bullet with empty text is never emitted.
C10_EmittedAreTheSurvivors ==
    RenderReturned
        => /\ Len(EmittedRuns) = Len(Rendered)
           /\ \A i \in 1..Len(Rendered) :
                 BulletLinesOf(EmittedRuns[i])
                     = AsLines(SelectSeq(SourceBullets(Rendered[i]), Survives))

\* a role kept one bullet and dropped another whose tags the filter accepts
\* but whose text is empty
C10_Witness ==
    /\ pc = "experience" /\ ret.exc = "" /\ include # {}
    /\ \E i \in 1..Len(Rendered) :
          /\ \E j \in 1..Len(SourceBullets(Rendered[i])) :
                LET b == SourceBullets(Rendered[i])[j] IN Accepted(b) /\ ~HasText(b)
          /\ Len(BulletLinesOf(EmittedRuns[i])) = 1

-----------------------------------------------------------------------------
(* Properties of build_md, under SpecBuild *)

SectionKeys ==
    << <<"name", "location", "phone", "email">>, <<"summary">>, <<"skills">>,
       <<"experience">>, <<"projects">>, <<"education">> >>

\* an element of the output that only the section can have written: no
\* document value of SpecBuild and no other section holds it
SectionMark ==
    <<"#", "S", "## Technical Skills", "## Professional Experience",
      "## Projects", "## Education">>

\* every field of the section is missing, None or empty
FieldsEmpty(sec) ==
    \A i \in 1..Len(SectionKeys[sec]) : ~Truthy(Get(data, SectionKeys[sec][i], None))

Occurrences(c, s) == {i \in 1..Len(s) : s[i] = c}

BuildReturned == pc = "returned" /\ ret.exc = ""

\* C7: each of the six sections whose document fields are all missing or
\* empty renders as the empty string and leaves nothing in the output of
\* build_md; a document without name, location, phone and email has no header.
C7_EmptySectionsOmitted ==
    BuildReturned
        => \A sec \in 1..6 :
              FieldsEmpty(sec)
                  => /\ render_parts(data, include, exclude, mode)[sec].val = <<>>
                     /\ Occurrences(SectionMark[sec], ret.val) = {}

\* C8: the output holds the sections that rendered non-empty, each once, in
\* the order header, summary, skills, experience, projects, education,
\* whatever the order of the document's keys; it does not start with
\* whitespace and it ends with exactly one newline.
C8_FixedOrderAndTrim ==
    BuildReturned
        => LET parts == render_parts(data, include, exclude, mode)
               at(sec) == Occurrences(SectionMark[sec], ret.val)
           IN  /\ \A sec \in 1..6 :
                     Cardinality(at(sec)) = IF parts[sec].val # <<>> THEN 1 ELSE 0
               /\ \A a, b \in 1..6 :
                     a < b => \A i \in at(a), j \in at(b) : i < j
               /\ Len(ret.val) >= 2
               /\ ~IsSpace(ret.val[1])
               /\ ret.val[Len(ret.val)] = "\n"
               /\ ~IsSpace(ret.val[Len(ret.val) - 1])

\* a document with its keys from education back to name, all six sections
\* populated, has been rendered
C8_Witness ==
    /\ BuildReturned
    /\ Len(data.v) = 9
    /\ data.v[1][1] = "education" /\ data.v[9][1] = "name"
    /\ \A sec \in 1..6 : Occurrences(SectionMark[sec], ret.val) # {}

-----------------------------------------------------------------------------
(* Properties of main, under Spec *)

ArgsAccepted == args.inp # "" /\ args.mode \in {"", "any", "all"}

\* what build_md returns for the run's command line and input file
RunResult ==
    build_md(infile.doc, tag_set(args.include), tag_set(args.exclude),
             IF args.mode = "" THEN "any" ELSE args.mode)

RunSucceeds == ArgsAccepted /\ infile.state = "yaml" /\ RunResult.exc = ""

\* C9: the output file is written at most once, and only after argument
\* parsing, loading and the whole of build_md have succeeded; a run in which
\* one of them fails ends in an error state with the output file as it was.
C9_WriteOnlyAfterSuccess ==
    /\ nwrites <= 1
    /\ nwrites = 1 <=> pc = "done"
    /\ nwrites = 1 => (RunSucceeds /\ outfile = RunResult.val)
    /\ nwrites = 0 => outfile = OldOutput
    /\ pc \in {"built", "done"} => RunSucceeds
    /\ pc \in {"usage_error", "error"} => (~RunSucceeds /\ outfile = OldOutput)

\* a run whose rendering raised has ended in error with the old output file
C9_Witness ==
    /\ pc = "error"
    /\ ArgsAccepted /\ infile.state = "yaml"
    /\ ret.exc = "AttributeError"
    /\ outfile = OldOutput /\ nwrites = 0

====
